---------------------------- MODULE Spec2Model ----------------------------
(***************************************************************************)
(* A model of the Pakistani-law RAG pipeline (src/rag_pakistan_law):       *)
(* PDFProcessor (segmenter), TextChunker (chunker), GeminiIntegration      *)
(* (embedding / generation), VectorStore (ChromaDB collection) and         *)
(* PakistaniLawRAG (setup / query orchestration).                          *)
(*                                                                         *)
(* Text is a sequence of one-character strings.  The regular expressions   *)
(* of the source are computed character by character over a small          *)
(* alphabet: letters, digits, whitespace, the "safe" punctuation of        *)
(* clean_text, and "@" standing for every character outside that set.      *)
(***************************************************************************)
EXTENDS Integers, Sequences, FiniteSets, TLC

VARIABLES
    \* --- segmenter run (PDFProcessor) ---
    text,            \* the text handed to the segmenter (the extraction result)
    document_type,   \* its document type
    seg_call,        \* "none" | "extract_sections" | "process_pdf"
    seg_sections,    \* the units returned by that call
    \* --- chunker run (TextChunker) ---
    sections,        \* the units handed to create_chunks
    chunk_call,      \* "none" | "create_chunks"
    all_chunks,      \* the chunks it returned
    \* --- the running system (PakistaniLawRAG) ---
    pdf_directory,   \* the corpus: a sequence of files [kind, text]
    processed_file,  \* the intermediate cache sections.json: [exists, sections]
    collection,      \* the ChromaDB collection: a sequence of stored records
    result,          \* the last call of the public API and what it returned
    calls,           \* the collaborators that call invoked, in order, with
                     \* what each gave back
    rebuilds         \* history: successful setup(force_rebuild=True) calls made
                     \* in a row over the present documents (counted up to 2)

vars == << text, document_type, seg_call, seg_sections,
           sections, chunk_call, all_chunks,
           pdf_directory, processed_file, collection, result, calls, rebuilds >>

segVars   == << text, document_type, seg_call, seg_sections >>
chunkVars == << sections, chunk_call, all_chunks >>
sysVars   == << pdf_directory, processed_file, collection, result, calls, rebuilds >>

(***************************************************************************)
(* Bounds of the model.                                                    *)
(***************************************************************************)
\* chunk_size of the TextChunker under test (a constructor parameter; the
\* default config.CHUNK_SIZE is 1000 tokens, scaled down here).
ChunkSize == 2
\* longest unit body enumerated character by character for the chunker
MaxLen == 5
\* most units in one create_chunks call / most headings in one segmented text
MaxUnits == 2
\* the failing embedding calls of a run are enumerated among its first MaxFailed
MaxFailed == 3
\* most texts in one generate_embeddings call
MaxTexts == 3
\* most files in the pdf directory of a process_all_pdfs run
MaxFiles == 3
\* most headings in one text of the boundary run
MaxHeadings == 2
\* largest chunk_size of a token-window run
MaxChunkSize == 3
\* most windows of one split_text_by_tokens call that are kept on record
MaxWindows == 6

(***************************************************************************)
(* Characters and small helpers.                                           *)
(***************************************************************************)
Whitespace == {" ", "\n"}
Digits     == {"0", "1", "2", "3", "4", "5", "6", "7", "8", "9"}
Letters    == {"a", "b", "c", "e", "f", "g", "i", "l", "n", "o", "p", "r", "s", "t",
               "A", "P", "S"}
SafePunct  == {".", ",", ";", ":", "!", "?", "(", ")", "[", "]", "{", "}",
               "-", "'", "\"", "/"}
Terminators == {".", "!", "?"}

Min(S) == CHOOSE x \in S : \A y \in S : x <= y
Max(S) == 0 - Min({ 0 - x : x \in S })

Rep(c, n) == [i \in 1..n |-> c]

\* all sequences over S of length 0..n
SeqsUpTo(S, n) == UNION { [1..k -> S] : k \in 0..n }

\* str.lower() on the letters of the alphabet
Lower(c) == CASE c = "A" -> "a" [] c = "P" -> "p" [] c = "S" -> "s" [] OTHER -> c

\* str(i) for a non-negative integer
DigitChars == << "0", "1", "2", "3", "4", "5", "6", "7", "8", "9" >>
RECURSIVE str(_)
str(i) == IF i < 10 THEN << DigitChars[i + 1] >>
          ELSE str(i \div 10) \o << DigitChars[(i % 10) + 1] >>

\* length of the run of characters of S that starts at position i
RunLen(t, i, S) ==
    IF i > Len(t) THEN 0
    ELSE LET E == { j \in i..Len(t) : t[j] \notin S }
         IN  IF E = {} THEN Len(t) - i + 1 ELSE Min(E) - i

\* regex \d+ / \d* at position i
DigitRun(t, i) == RunLen(t, i, Digits)
\* regex \s+ / \s* at position i
WsRun(t, i) == RunLen(t, i, Whitespace)
\* regex [.!?]+ at position i
TermRun(t, i) == RunLen(t, i, Terminators)

\* the characters of a marked text that are not the deletion mark ""
Kept(c) == c # ""

HasAt(t, i, p) == i + Len(p) - 1 <= Len(t) /\ SubSeq(t, i, i + Len(p) - 1) = p

\* str.strip()
Strip(t) ==
    LET N == { i \in 1..Len(t) : t[i] \notin Whitespace }
    IN  IF N = {} THEN << >> ELSE SubSeq(t, Min(N), Max(N))

(***************************************************************************)
(* PDFProcessor.clean_text                                                 *)
(***************************************************************************)
\* re.sub(r'\s+', ' ', text): the first character of a whitespace run
\* becomes " ", the others go
CollapseWs(t) ==
    SelectSeq([ i \in 1..Len(t) |->
                  IF t[i] \notin Whitespace THEN t[i]
                  ELSE IF i > 1 /\ t[i - 1] \in Whitespace THEN "" ELSE " " ],
              Kept)

PageWord == << "P", "a", "g", "e", " " >>
OfWord   == << " ", "o", "f", " " >>

\* length of the match of r'Page \d+ of \d+' at position i, 0 when none
PageMatch(t, i) ==
    LET d1 == DigitRun(t, i + 5)
        j  == i + 5 + d1
        d2 == DigitRun(t, j + 4)
    IN  IF HasAt(t, i, PageWord) /\ d1 > 0 /\ HasAt(t, j, OfWord) /\ d2 > 0
        THEN 9 + d1 + d2 ELSE 0

\* re.sub(r'Page \d+ of \d+', '', text): two matches cannot overlap, so
\* every match found in the text is removed
RemovePage(t) ==
    LET starts == { p \in 1..Len(t) : t[p] = "P" /\ PageMatch(t, p) > 0 }
    IN  SelectSeq([ i \in 1..Len(t) |->
                      IF \E p \in starts : p <= i /\ i < p + PageMatch(t, p)
                      THEN "" ELSE t[i] ],
                  Kept)

\* re.sub(r'^\d+\s*$', '', text, flags=re.MULTILINE): the whitespace runs are
\* single spaces by now, so a "line" is the whole text
RemoveLoneNumber(t) ==
    IF DigitRun(t, 1) > 0 /\ \A k \in (DigitRun(t, 1) + 1)..Len(t) : t[k] \in Whitespace
    THEN << >> ELSE t

IsSafe(c) == c \in Letters \cup Digits \cup {"_"} \cup Whitespace \cup SafePunct

\* re.sub(r'[^\w\s\.\,\;\:\!\?\(\)\[\]\{\}\-\'\"\/]', '', text)
RemoveUnsafe(t) == SelectSeq(t, IsSafe)

clean_text(t) ==
    Strip(RemoveUnsafe(RemoveLoneNumber(RemovePage(CollapseWs(t)))))

(***************************************************************************)
(* PDFProcessor.extract_sections / process_pdf                             *)
(***************************************************************************)
\* the filter of extract_sections: len(section_text) > 50
MinSectionLen == 50

SectionWord == << "S", "e", "c", "t", "i", "o", "n" >>
ArticleWord == << "A", "r", "t", "i", "c", "l", "e" >>

LowerSeq(t) == [k \in 1..Len(t) |-> Lower(t[k])]

\* r'Section\s+\d+[A-Z]?' (re.IGNORECASE) matches at position i
HeadingAt(t, i, kw) ==
    /\ i + Len(kw) - 1 <= Len(t)
    /\ LowerSeq(SubSeq(t, i, i + Len(kw) - 1)) = LowerSeq(kw)
    /\ WsRun(t, i + Len(kw)) > 0
    /\ DigitRun(t, i + Len(kw) + WsRun(t, i + Len(kw))) > 0

\* the first heading at or after position i, Len(t) + 1 when there is none
NextHeading(t, i, kw) ==
    LET H == { p \in i..Len(t) : HeadingAt(t, p, kw) }
    IN  IF H = {} THEN Len(t) + 1 ELSE Min(H)

\* the match of a pattern whose body group runs to the end of the text
MatchAt_greedy_body(t, p, kw) ==
    LET ns   == p + Len(kw) + WsRun(t, p + Len(kw))
        d    == DigitRun(t, ns)
        hasL == ns + d <= Len(t) /\ t[ns + d] \in Letters
        ne   == ns + d + (IF hasL THEN 1 ELSE 0)
        s1   == ne + WsRun(t, ne)
        s2   == s1 + (IF s1 <= Len(t) /\ t[s1] \in {":", "-"} THEN 1 ELSE 0)
        bs   == s2 + WsRun(t, s2)
        be   == Len(t) + 1
    IN  [ num |-> SubSeq(t, ns, ne - 1), body |-> SubSeq(t, bs, be - 1), next |-> be ]

\* the section record built from one regex match (lines 67-77 / 84-94);
\* where the match's number, body start and body end are
MatchAt(t, p, kw) ==
    LET ns   == p + Len(kw) + WsRun(t, p + Len(kw))        \* \s+
        d    == DigitRun(t, ns)                             \* \d+
        hasL == ns + d <= Len(t) /\ t[ns + d] \in Letters   \* [A-Z]? (IGNORECASE)
        ne   == ns + d + (IF hasL THEN 1 ELSE 0)
        s1   == ne + WsRun(t, ne)                           \* \s*
        s2   == s1 + (IF s1 <= Len(t) /\ t[s1] \in {":", "-"} THEN 1 ELSE 0)
        bs   == s2 + WsRun(t, s2)                           \* \s*
        be   == NextHeading(t, bs, kw)                      \* (.*?)(?=heading|$)
    IN  [ num |-> SubSeq(t, ns, ne - 1), body |-> SubSeq(t, bs, be - 1), next |-> be ]

RECURSIVE ExtractFrom(_, _, _, _)
\* the loop over re.finditer(...), from search position i
ExtractFrom(t, i, kw, dtype) ==
    LET p == NextHeading(t, i, kw)
    IN  IF p > Len(t) THEN << >>
        ELSE LET m            == MatchAt(t, p, kw)
                 section_num  == Strip(m.num)
                 section_text == Strip(m.body)
             IN  (IF section_text # << >> /\ Len(section_text) > MinSectionLen
                  THEN << [ document_type  |-> dtype,
                            section_number |-> section_num,
                            title          |-> kw \o << " " >> \o section_num,
                            content        |-> clean_text(section_text) ] >>
                  ELSE << >>)
                 \o ExtractFrom(t, m.next, kw, dtype)

extract_sections(t, dtype) ==
    IF dtype = "penal_code" THEN ExtractFrom(t, 1, SectionWord, "penal_code")
    ELSE IF dtype = "constitution" THEN ExtractFrom(t, 1, ArticleWord, "constitution")
    ELSE << >>

\* process_pdf, given what extract_text_from_pdf returned
process_pdf(raw_text, dtype) ==
    IF raw_text = << >> THEN << >>
    ELSE extract_sections(clean_text(raw_text), dtype)

(***************************************************************************)
(* TextChunker                                                             *)
(***************************************************************************)
chunk_size == ChunkSize

\* the class of a character for the tokenizer's pre-tokenisation
TokClass(c) == IF c \in Whitespace THEN "space"
               ELSE IF c \in Letters THEN "letter"
               ELSE IF c \in Digits THEN "digit"
               ELSE "other"

\* count_tokens: len(encoding.encode(text)).  The tokenizer (tiktoken
\* cl100k_base) is an external library; it is abstracted to its pre-tokeniser:
\* one token per maximal run of letters, of digits, or of other non-space
\* characters, whitespace joining the token that follows it.
count_tokens(t) ==
    Cardinality({ i \in 1..Len(t) :
                    /\ t[i] \notin Whitespace
                    /\ (i = 1 \/ TokClass(t[i - 1]) # TokClass(t[i])) })

RECURSIVE SplitFrom(_, _)
\* re.split(r'[.!?]+', text), from position i
SplitFrom(t, i) ==
    LET T == { j \in i..Len(t) : t[j] \in Terminators }
    IN  IF T = {} THEN << SubSeq(t, i, Len(t)) >>
        ELSE << SubSeq(t, i, Min(T) - 1) >> \o SplitFrom(t, Min(T) + TermRun(t, Min(T)))

NonEmpty(s) == s # << >>

\* sentences = [s.strip() for s in sentences if s.strip()]
Sentences(t) ==
    LET parts == SplitFrom(t, 1)
    IN  SelectSeq([k \in 1..Len(parts) |-> Strip(parts[k])], NonEmpty)

RECURSIVE PackSentenceOnly(_, _, _, _)
\* PackFrom with the size test made on the sentence instead of on the grown chunk
PackSentenceOnly(ss, k, chunks, current_chunk) ==
    IF k > Len(ss)
    THEN IF current_chunk # << >> THEN Append(chunks, Strip(current_chunk)) ELSE chunks
    ELSE LET sentence   == ss[k]
             test_chunk == IF current_chunk # << >>
                           THEN current_chunk \o << " " >> \o sentence
                           ELSE sentence
         IN  IF Cardinality({ i \in 1..Len(sentence) :
                                /\ sentence[i] \notin Whitespace
                                /\ (i = 1 \/ TokClass(sentence[i - 1]) # TokClass(sentence[i])) })
                    <= chunk_size
             THEN PackSentenceOnly(ss, k + 1, chunks, test_chunk)
             ELSE PackSentenceOnly(ss, k + 1,
                                   IF current_chunk # << >>
                                   THEN Append(chunks, Strip(current_chunk)) ELSE chunks,
                                   sentence)

RECURSIVE PackFrom(_, _, _, _)
\* the loop of split_text_by_sentences from sentence k on, with the chunks
\* closed so far and the current chunk; then "add the last chunk"
PackFrom(ss, k, chunks, current_chunk) ==
    IF k > Len(ss)
    THEN IF current_chunk # << >> THEN Append(chunks, Strip(current_chunk)) ELSE chunks
    ELSE LET sentence   == ss[k]
             test_chunk == IF current_chunk # << >>
                           THEN current_chunk \o << " " >> \o sentence
                           ELSE sentence
         IN  IF count_tokens(test_chunk) <= chunk_size
             THEN PackFrom(ss, k + 1, chunks, test_chunk)
             ELSE PackFrom(ss, k + 1,
                           IF current_chunk # << >>
                           THEN Append(chunks, Strip(current_chunk)) ELSE chunks,
                           sentence)

\* split_text_by_sentences that makes a chunk of every sentence
split_text_by_sentences_one_each(t) == Sentences(t)

\* split_text_by_sentences with the size test made on the sentence alone
split_text_by_sentences_sentence_only(t) ==
    PackSentenceOnly(Sentences(t), 1, << >>, << >>)

split_text_by_sentences(t) == PackFrom(Sentences(t), 1, << >>, << >>)

\* f"{document_type}_{section_number}_{i}"
chunk_id(section, i) ==
    << section.document_type, "_" >> \o section.section_number \o << "_" >> \o str(i)

PartWord == << " ", "(", "P", "a", "r", "t", " " >>

\* split_chunk with a 1-based chunk_index
split_chunk_one_based(section, chunks, i) ==
    [ document_type  |-> section.document_type,
      section_number |-> section.section_number,
      title          |-> section.title \o PartWord \o str(i + 1) \o << ")" >>,
      content        |-> chunks[i + 1],
      id             |-> chunk_id(section, i),
      chunk_index    |-> i + 1,
      total_chunks   |-> Len(chunks) ]

\* the chunk built for piece i (0-based) of a section that was split
\* (lines 91-99)
split_chunk(section, chunks, i) ==
    [ document_type  |-> section.document_type,
      section_number |-> section.section_number,
      title          |-> section.title \o PartWord \o str(i + 1) \o << ")" >>,
      content        |-> chunks[i + 1],
      id             |-> chunk_id(section, i),
      chunk_index    |-> i,
      total_chunks   |-> Len(chunks) ]

\* the single chunk of a section that fits (lines 76-84)
single_chunk(section) ==
    [ document_type  |-> section.document_type,
      section_number |-> section.section_number,
      title          |-> section.title,
      content        |-> section.content,
      id             |-> chunk_id(section, 0),
      chunk_index    |-> 0,
      total_chunks   |-> 1 ]

\* one iteration of the loop of create_chunks: the chunks of one section
section_chunks(section) ==
    IF count_tokens(section.content) <= chunk_size
    THEN << single_chunk(section) >>
    ELSE LET chunks == split_text_by_sentences(section.content)
         IN  [ k \in 1..Len(chunks) |-> split_chunk(section, chunks, k - 1) ]

RECURSIVE create_chunks(_)
create_chunks(secs) ==
    IF secs = << >> THEN << >>
    ELSE section_chunks(Head(secs)) \o create_chunks(Tail(secs))

\* create_summary: text[:200].strip(), "..." appended when the text is longer
SummaryLen == 200
create_summary(t) ==
    Strip(SubSeq(t, 1, IF Len(t) < SummaryLen THEN Len(t) ELSE SummaryLen))
        \o (IF Len(t) > SummaryLen THEN << ".", ".", "." >> ELSE << >>)

\* add_metadata: the chunk with its summary.  The keywords and legal_context
\* it also attaches are functions of content and document_type that nothing
\* in the pipeline reads back; they are left out of the record.
add_metadata(chunks) ==
    [ k \in 1..Len(chunks) |->
        [ document_type  |-> chunks[k].document_type,
          section_number |-> chunks[k].section_number,
          title          |-> chunks[k].title,
          content        |-> chunks[k].content,
          id             |-> chunks[k].id,
          chunk_index    |-> chunks[k].chunk_index,
          total_chunks   |-> chunks[k].total_chunks,
          summary        |-> create_summary(chunks[k].content) ] ]

(***************************************************************************)
(* PDFProcessor.process_all_pdfs                                           *)
(*                                                                         *)
(* A file of the pdf directory is [pdf, kind, raw_text]: whether its name  *)
(* ends in .pdf, what its name contains ("penal" / "constitution" /        *)
(* "other") and what extract_text_from_pdf returns for it (empty when      *)
(* both extraction methods fail).                                          *)
(***************************************************************************)
doc_type_of(file) ==
    IF file.kind = "penal" THEN "penal_code"
    ELSE IF file.kind = "constitution" THEN "constitution"
    ELSE "unknown"

\* process_all_pdfs that gives up at the first file without text
RECURSIVE process_all_pdfs_abort(_)
process_all_pdfs_abort(files) ==
    IF files = << >> THEN << >>
    ELSE IF Head(files).pdf /\ Head(files).raw_text = << >> THEN << >>
    ELSE (IF Head(files).pdf
          THEN process_pdf(Head(files).raw_text, doc_type_of(Head(files)))
          ELSE << >>)
         \o process_all_pdfs_abort(Tail(files))

RECURSIVE process_all_pdfs(_)
process_all_pdfs(files) ==
    IF files = << >> THEN << >>
    ELSE (IF Head(files).pdf
          THEN process_pdf(Head(files).raw_text, doc_type_of(Head(files)))
          ELSE << >>)
         \o process_all_pdfs(Tail(files))

(***************************************************************************)
(* GeminiIntegration                                                       *)
(*                                                                         *)
(* A vector is [dim, zero, of]: its length, whether it is the zero vector  *)
(* of the fallback, and the text the service embedded.  The empty list is  *)
(* the vector of dim 0.                                                    *)
(***************************************************************************)
EmbeddingDim == 768

Vec(t)   == [ dim |-> EmbeddingDim, zero |-> FALSE, of |-> t ]
ZeroVec  == [ dim |-> EmbeddingDim, zero |-> TRUE, of |-> << >> ]
NoVector == [ dim |-> 0, zero |-> FALSE, of |-> << >> ]

\* generate_embeddings that leaves out the texts whose call raises
RECURSIVE generate_embeddings_skip_failed(_, _)
generate_embeddings_skip_failed(texts, failed) ==
    IF texts = << >> THEN << >>
    ELSE generate_embeddings_skip_failed(SubSeq(texts, 1, Len(texts) - 1), failed)
            \o (IF Len(texts) \in failed THEN << >> ELSE << Vec(texts[Len(texts)]) >>)

\* generate_embeddings: `failed` are the positions whose embed_content call
\* raises.  The batches of 10 and the pause between them change nothing in
\* what is returned.
generate_embeddings(texts, failed) ==
    [ k \in 1..Len(texts) |-> IF k \in failed THEN ZeroVec ELSE Vec(texts[k]) ]

\* generate_embedding_for_query: `outcome` is what embed_content does
generate_embedding_for_query(question, outcome) ==
    IF outcome = "ok" THEN Vec(question) ELSE NoVector

ApologyGeneration ==
    "I apologize, but I couldn't generate a response. Please try rephrasing your question."
ErrorGeneration == "Error generating response: service error"
GeneratedText == "generated answer"

\* generate_answer: `outcome` is what generate_content does: "text" (a
\* response with text), "blank" (a response whose text is white space, which
\* strip() empties), "empty" (no response or no text) or "raise"
generate_answer(question, context_documents, outcome) ==
    IF outcome = "raise" THEN ErrorGeneration
    ELSE IF outcome = "text" THEN GeneratedText
    ELSE IF outcome = "blank" THEN ""
    ELSE ApologyGeneration

(***************************************************************************)
(* VectorStore over a ChromaDB collection                                  *)
(*                                                                         *)
(* The collection is the sequence of its records [id, document, embedding, *)
(* metadata] in insertion order.                                           *)
(***************************************************************************)
StoredIds(col) == { col[i].id : i \in 1..Len(col) }

NoDuplicates(ids) == \A i, j \in 1..Len(ids) : ids[i] = ids[j] => i = j

\* collection.add that stores every record handed to it, stored id or not
collection_add_append(col, ids, documents, embeddings, metadatas, index_ok) ==
    IF ~index_ok \/ ids = << >> \/ Len(embeddings) # Len(ids) \/ ~NoDuplicates(ids)
    THEN [ raised |-> TRUE, collection |-> col ]
    ELSE [ raised |-> FALSE,
           collection |-> col \o [ k \in 1..Len(ids) |->
                                     [ id |-> ids[k], document |-> documents[k],
                                       embedding |-> embeddings[k],
                                       metadata |-> metadatas[k] ] ] ]

\* self.collection.add(ids, documents, embeddings, metadatas), ChromaDB's
\* add: it raises on an empty batch, on a batch whose ids repeat, on a
\* count mismatch and when the store fails (index_ok false), and then writes
\* nothing; otherwise it inserts the records whose id is not stored yet and
\* leaves a stored id's record as it is (add is not upsert).
collection_add(col, ids, documents, embeddings, metadatas, index_ok) ==
    IF ~index_ok \/ ids = << >> \/ Len(embeddings) # Len(ids) \/ ~NoDuplicates(ids)
    THEN [ raised |-> TRUE, collection |-> col ]
    ELSE [ raised |-> FALSE,
           collection |->
               col \o SelectSeq([ k \in 1..Len(ids) |->
                                    [ id |-> ids[k], document |-> documents[k],
                                      embedding |-> embeddings[k],
                                      metadata |-> metadatas[k] ] ],
                                LAMBDA r : r.id \notin StoredIds(col)) ]

\* the metadata add_documents builds for a chunk (lines 63-72)
chunk_metadata(chunk) ==
    [ document_type  |-> chunk.document_type,
      section_number |-> chunk.section_number,
      title          |-> chunk.title,
      chunk_index    |-> chunk.chunk_index,
      total_chunks   |-> chunk.total_chunks,
      summary        |-> chunk.summary ]

\* add_documents: raises what collection.add raises
add_documents(col, chunks, embeddings, index_ok) ==
    collection_add(col,
                   [ k \in 1..Len(chunks) |-> chunks[k].id ],
                   [ k \in 1..Len(chunks) |-> chunks[k].content ],
                   embeddings,
                   [ k \in 1..Len(chunks) |-> chunk_metadata(chunks[k]) ],
                   index_ok)

\* the distance of the index's metric between a query vector and a stored
\* one (the metric is the store's; any fixed function serves)
Distance(q, e) == IF e.zero THEN 2 ELSE IF e.of # << >> /\ q.of # << >> /\ e.of[1] = q.of[1] THEN 0 ELSE 1

\* collection.query(query_embeddings, n_results, where): the positions of
\* the records that pass the equality filter, nearest first (ties in
\* insertion order), at most n_results of them
collection_query(col, q, n_results, where) ==
    LET F == { i \in 1..Len(col) :
                 where = "" \/ col[i].metadata.document_type = where }
        Before(j, i) == \/ Distance(q, col[j].embedding) < Distance(q, col[i].embedding)
                        \/ /\ Distance(q, col[j].embedding) = Distance(q, col[i].embedding)
                           /\ j < i
        Rank(i) == Cardinality({ j \in F : Before(j, i) }) + 1
        k == IF n_results < Cardinality(F) THEN n_results ELSE Cardinality(F)
    IN  [ r \in 1..k |-> CHOOSE i \in F : Rank(i) = r ]

\* search_similar that passes no where clause to the collection
search_similar_unfiltered(col, query_embedding, n_results, filter_metadata, index_ok) ==
    IF ~index_ok \/ n_results <= 0 \/ query_embedding.dim = 0 THEN << >>
    ELSE LET hits == collection_query(col, query_embedding, n_results, "")
         IN  [ r \in 1..Len(hits) |->
                 [ content          |-> col[hits[r]].document,
                   id               |-> col[hits[r]].id,
                   metadata         |-> col[hits[r]].metadata,
                   similarity_score |-> 1 - Distance(query_embedding,
                                                     col[hits[r]].embedding) ] ]

\* search_similar that takes the records in the order they were stored
search_similar_insertion_order(col, query_embedding, n_results, filter_metadata, index_ok) ==
    IF ~index_ok \/ n_results <= 0 \/ query_embedding.dim = 0 THEN << >>
    ELSE LET F == { i \in 1..Len(col) :
                      filter_metadata = ""
                          \/ col[i].metadata.document_type = filter_metadata }
             k == IF n_results < Cardinality(F) THEN n_results ELSE Cardinality(F)
             hits == [ r \in 1..k |->
                         CHOOSE i \in F : Cardinality({ j \in F : j < i }) = r - 1 ]
         IN  [ r \in 1..Len(hits) |->
                 [ content          |-> col[hits[r]].document,
                   id               |-> col[hits[r]].id,
                   metadata         |-> col[hits[r]].metadata,
                   similarity_score |-> 1 - Distance(query_embedding,
                                                     col[hits[r]].embedding) ] ]

\* search_similar: the formatted results, empty when the query raises (the
\* store fails, n_results is not positive, or the vector is empty)
search_similar(col, query_embedding, n_results, filter_metadata, index_ok) ==
    IF ~index_ok \/ n_results <= 0 \/ query_embedding.dim = 0 THEN << >>
    ELSE LET hits == collection_query(col, query_embedding, n_results, filter_metadata)
         IN  [ r \in 1..Len(hits) |->
                 [ content          |-> col[hits[r]].document,
                   id               |-> col[hits[r]].id,
                   metadata         |-> col[hits[r]].metadata,
                   similarity_score |-> 1 - Distance(query_embedding,
                                                     col[hits[r]].embedding) ] ]

(***************************************************************************)
(* PakistaniLawRAG                                                         *)
(***************************************************************************)
NoCache == [ sections |-> << >>, exists |-> FALSE ]

\* get_collection_stats().get('total_documents', 0): the collection's count,
\* and 0 when count() raises and the statistics come back empty
total_documents(col, index_ok) == IF index_ok THEN Len(col) ELSE 0

\* the sections setup_database works on (lines 39-57): re-segmented from
\* the pdf directory, or loaded from the cache.  json.dump followed by
\* json.load gives back the same list of records of strings.
setup_sections(force_rebuild, files, cache) ==
    IF ~cache.exists \/ force_rebuild THEN process_all_pdfs(files) ELSE cache.sections

EmbedLog(texts, failed) ==
    [ k \in 1..Len(texts) |->
        [ n   |-> EmbeddingDim,
          to  |-> "embed_content",
          out |-> IF k \in failed THEN "raise" ELSE "ok" ] ]

\* the second half of setup_database that goes on to its last line whatever
\* add_documents does
build_index_ignores_failure(col, secs, failed, index_ok) ==
    LET chunks     == add_metadata(create_chunks(secs))
        texts      == [ k \in 1..Len(chunks) |-> chunks[k].content ]
        embeddings == generate_embeddings(texts, failed)
    IN  IF embeddings = << >>
        THEN [ ret |-> FALSE, collection |-> col, calls |-> << >> ]
        ELSE LET added == add_documents(col, chunks, embeddings, index_ok)
             IN  [ ret        |-> TRUE,
                   collection |-> added.collection,
                   calls      |-> Append(EmbedLog(texts, failed),
                                    [ n   |-> Len(chunks),
                                      to  |-> "collection.add",
                                      out |-> IF added.raised THEN "raise" ELSE "ok" ]) ]

\* the second half of setup_database (lines 59-80): chunk the sections,
\* embed the chunks, add them to the collection.  `failed` are the texts
\* whose embedding call raises, index_ok is whether the store takes the write.
build_index(col, secs, failed, index_ok) ==
    LET chunks     == add_metadata(create_chunks(secs))
        texts      == [ k \in 1..Len(chunks) |-> chunks[k].content ]
        embeddings == generate_embeddings(texts, failed)
    IN  IF embeddings = << >>
        THEN [ ret |-> FALSE, collection |-> col, calls |-> << >> ]
        ELSE LET added == add_documents(col, chunks, embeddings, index_ok)
             IN  [ ret        |-> ~added.raised,
                   collection |-> added.collection,
                   calls      |-> Append(EmbedLog(texts, failed),
                                    [ n   |-> Len(chunks),
                                      to  |-> "collection.add",
                                      out |-> IF added.raised THEN "raise" ELSE "ok" ]) ]

ApologyQuery == "Sorry, I could not process your question."
NoInfoQuery  == "I could not find relevant information to answer your question."

PreviewLen == 200
\* doc['content'][:200] + "..." if len(doc['content']) > 200 else doc['content']
content_preview(content) ==
    IF Len(content) > PreviewLen
    THEN SubSeq(content, 1, PreviewLen) \o << ".", ".", "." >>
    ELSE content

\* the sources list of query cut to the documents generate_answer reads
query_sources_top3(similar_docs) ==
    [ k \in 1..(IF Len(similar_docs) < 3 THEN Len(similar_docs) ELSE 3) |->
        [ document_type    |-> similar_docs[k].metadata.document_type,
          section_number   |-> similar_docs[k].metadata.section_number,
          title            |-> similar_docs[k].metadata.title,
          similarity_score |-> similar_docs[k].similarity_score,
          content_preview  |-> content_preview(similar_docs[k].content) ] ]

\* the sources list of query (lines 119-128)
query_sources(similar_docs) ==
    [ k \in 1..Len(similar_docs) |->
        [ document_type    |-> similar_docs[k].metadata.document_type,
          section_number   |-> similar_docs[k].metadata.section_number,
          title            |-> similar_docs[k].metadata.title,
          similarity_score |-> similar_docs[k].similarity_score,
          content_preview  |-> content_preview(similar_docs[k].content) ] ]

EmbedCall(out, v) == [ n |-> v.dim, to |-> "embed_content", out |-> out ]
SearchCall(index_ok, docs) ==
    [ n |-> Len(docs), to |-> "collection.query", out |-> IF index_ok THEN "ok" ELSE "raise" ]
GenerateCall(out) == [ n |-> 0, to |-> "generate_content", out |-> out ]

\* query that searches whatever the embedding call gave back
query_no_embedding_check(question, n_results, dtype, col, embed_out, index_ok, gen_out) ==
    LET query_embedding == generate_embedding_for_query(question, embed_out)
        similar_docs    == search_similar(col, query_embedding, n_results, dtype, index_ok)
    IN  IF similar_docs = << >>
        THEN [ ret   |-> [ answer |-> NoInfoQuery, sources |-> << >>,
                           error |-> "No relevant documents found" ],
               calls |-> << EmbedCall(embed_out, query_embedding),
                            SearchCall(index_ok, similar_docs) >> ]
        ELSE [ ret   |-> [ answer  |-> generate_answer(question, similar_docs, gen_out),
                           sources |-> query_sources(similar_docs),
                           query   |-> question ],
               calls |-> << EmbedCall(embed_out, query_embedding),
                            SearchCall(index_ok, similar_docs),
                            GenerateCall(gen_out) >> ]

\* query that generates an answer even from no retrieved chunk
query_no_results_check(question, n_results, dtype, col, embed_out, index_ok, gen_out) ==
    LET query_embedding == generate_embedding_for_query(question, embed_out)
        similar_docs    == search_similar(col, query_embedding, n_results, dtype, index_ok)
    IN  IF query_embedding.dim = 0
        THEN [ ret   |-> [ answer |-> ApologyQuery, sources |-> << >>,
                           error |-> "Failed to generate query embedding" ],
               calls |-> << EmbedCall(embed_out, query_embedding) >> ]
        ELSE [ ret   |-> [ answer  |-> generate_answer(question, similar_docs, gen_out),
                           sources |-> query_sources(similar_docs),
                           query   |-> question ],
               calls |-> << EmbedCall(embed_out, query_embedding),
                            SearchCall(index_ok, similar_docs),
                            GenerateCall(gen_out) >> ]

\* query that reports a failed generation as a failed query
query_generation_fails(question, n_results, dtype, col, embed_out, index_ok, gen_out) ==
    LET query_embedding == generate_embedding_for_query(question, embed_out)
        similar_docs    == search_similar(col, query_embedding, n_results, dtype, index_ok)
    IN  IF query_embedding.dim = 0
        THEN [ ret   |-> [ answer |-> ApologyQuery, sources |-> << >>,
                           error |-> "Failed to generate query embedding" ],
               calls |-> << EmbedCall(embed_out, query_embedding) >> ]
        ELSE IF similar_docs = << >>
        THEN [ ret   |-> [ answer |-> NoInfoQuery, sources |-> << >>,
                           error |-> "No relevant documents found" ],
               calls |-> << EmbedCall(embed_out, query_embedding),
                            SearchCall(index_ok, similar_docs) >> ]
        ELSE IF gen_out = "raise"
        THEN [ ret   |-> [ answer |-> ErrorGeneration, sources |-> << >>,
                           error |-> "service error" ],
               calls |-> << EmbedCall(embed_out, query_embedding),
                            SearchCall(index_ok, similar_docs),
                            GenerateCall(gen_out) >> ]
        ELSE [ ret   |-> [ answer  |-> generate_answer(question, similar_docs, gen_out),
                           sources |-> query_sources(similar_docs),
                           query   |-> question ],
               calls |-> << EmbedCall(embed_out, query_embedding),
                            SearchCall(index_ok, similar_docs),
                            GenerateCall(gen_out) >> ]

\* query that reports an empty search without an error
query_empty_search_no_error(question, n_results, dtype, col, embed_out, index_ok, gen_out) ==
    LET query_embedding == generate_embedding_for_query(question, embed_out)
        similar_docs    == search_similar(col, query_embedding, n_results, dtype, index_ok)
    IN  IF query_embedding.dim = 0
        THEN [ ret   |-> [ answer |-> ApologyQuery, sources |-> << >>,
                           error |-> "Failed to generate query embedding" ],
               calls |-> << EmbedCall(embed_out, query_embedding) >> ]
        ELSE IF similar_docs = << >>
        THEN [ ret   |-> [ answer |-> NoInfoQuery, sources |-> << >>,
                           query |-> question ],
               calls |-> << EmbedCall(embed_out, query_embedding),
                            SearchCall(index_ok, similar_docs) >> ]
        ELSE [ ret   |-> [ answer  |-> generate_answer(question, similar_docs, gen_out),
                           sources |-> query_sources(similar_docs),
                           query   |-> question ],
               calls |-> << EmbedCall(embed_out, query_embedding),
                            SearchCall(index_ok, similar_docs),
                            GenerateCall(gen_out) >> ]

\* query: the dictionary it returns and the collaborators it invokes.
\* Every collaborator catches its own exceptions, so the handler of lines
\* 136-142 is not reached.
query(question, n_results, dtype, col, embed_out, index_ok, gen_out) ==
    LET query_embedding == generate_embedding_for_query(question, embed_out)
        similar_docs    == search_similar(col, query_embedding, n_results, dtype, index_ok)
    IN  IF query_embedding.dim = 0
        THEN [ ret   |-> [ answer |-> ApologyQuery, sources |-> << >>,
                           error |-> "Failed to generate query embedding" ],
               calls |-> << EmbedCall(embed_out, query_embedding) >> ]
        ELSE IF similar_docs = << >>
        THEN [ ret   |-> [ answer |-> NoInfoQuery, sources |-> << >>,
                           error |-> "No relevant documents found" ],
               calls |-> << EmbedCall(embed_out, query_embedding),
                            SearchCall(index_ok, similar_docs) >> ]
        ELSE [ ret   |-> [ answer  |-> generate_answer(question, similar_docs, gen_out),
                           sources |-> query_sources(similar_docs),
                           query   |-> question ],
               calls |-> << EmbedCall(embed_out, query_embedding),
                            SearchCall(index_ok, similar_docs),
                            GenerateCall(gen_out) >> ]

(***************************************************************************)
(* Lookup of a section by its number                                       *)
(***************************************************************************)
LookupLimit == 10

\* the vector the collection's own embedding function gives the empty text
\* of query_texts=[""]
EmptyTextVec == Vec(<< >>)

\* collection.query(query_texts=[""], n_results, where): the positions of the
\* records whose metadata equal every key of the where clause, nearest to the
\* embedding of the empty text first (ties in insertion order), at most
\* n_results of them
collection_query_texts(col, n_results, section_number, dtype) ==
    LET F == { i \in 1..Len(col) :
                 /\ col[i].metadata.section_number = section_number
                 /\ dtype = "" \/ col[i].metadata.document_type = dtype }
        Before(j, i) == \/ Distance(EmptyTextVec, col[j].embedding)
                             < Distance(EmptyTextVec, col[i].embedding)
                        \/ /\ Distance(EmptyTextVec, col[j].embedding)
                                = Distance(EmptyTextVec, col[i].embedding)
                           /\ j < i
        Rank(i) == Cardinality({ j \in F : Before(j, i) }) + 1
        k == IF n_results < Cardinality(F) THEN n_results ELSE Cardinality(F)
    IN  [ r \in 1..k |-> CHOOSE i \in F : Rank(i) = r ]

\* search_by_section: the formatted results, empty when the query raises.
\* index_ok is whether the library answers the query: it raises when the
\* store fails, when it rejects the where clause, and when the embedding of
\* the empty text does not have the dimension of the stored vectors.
search_by_section(col, section_number, dtype, index_ok) ==
    IF ~index_ok THEN << >>
    ELSE LET hits == collection_query_texts(col, LookupLimit, section_number, dtype)
         IN  [ r \in 1..Len(hits) |->
                 [ content  |-> col[hits[r]].document,
                   id       |-> col[hits[r]].id,
                   metadata |-> col[hits[r]].metadata ] ]

NotFoundAnswer(section_number) ==
    SectionWord \o << " " >> \o section_number
        \o << " ", "n", "o", "t", " ", "f", "o", "u", "n", "d", "." >>

HereIsWords ==
    << "H", "e", "r", "e", " ", "i", "s", " ", "t", "h", "e", " ",
       "c", "o", "n", "t", "e", "n", "t", " ", "o", "f", " " >>

\* combined_content of search_section (lines 157-159)
RECURSIVE combined_content(_)
combined_content(results) ==
    IF results = << >> THEN << >>
    ELSE Head(results).content \o << "\n", "\n" >> \o combined_content(Tail(results))

FoundAnswer(section_number, results) ==
    HereIsWords \o SectionWord \o << " " >> \o section_number
        \o << ":", "\n", "\n" >> \o combined_content(results)

\* the sources list of search_section (lines 165-173)
section_sources(results) ==
    [ k \in 1..Len(results) |->
        [ document_type   |-> results[k].metadata.document_type,
          section_number  |-> results[k].metadata.section_number,
          title           |-> results[k].metadata.title,
          content_preview |-> content_preview(results[k].content) ] ]

LookupCall(index_ok, results) ==
    [ n |-> Len(results), to |-> "collection.query",
      out |-> IF index_ok THEN "ok" ELSE "raise" ]

\* search_section that answers from whatever the lookup gave back
search_section_no_empty_check(section_number, dtype, col, index_ok) ==
    LET results == search_by_section(col, section_number, dtype, index_ok)
    IN  [ ret   |-> [ answer  |-> FoundAnswer(section_number, results),
                      sources |-> section_sources(results),
                      query   |-> SectionWord \o << " " >> \o section_number ],
          calls |-> << LookupCall(index_ok, results) >> ]

\* search_section: the dictionary it returns and the collaborator it invokes.
\* search_by_section catches its own exceptions, so the handler of lines
\* 181-187 is not reached.
search_section(section_number, dtype, col, index_ok) ==
    LET results == search_by_section(col, section_number, dtype, index_ok)
    IN  IF results = << >>
        THEN [ ret   |-> [ answer  |-> NotFoundAnswer(section_number),
                           sources |-> << >>,
                           error   |-> "Section not found" ],
               calls |-> << LookupCall(index_ok, results) >> ]
        ELSE [ ret   |-> [ answer  |-> FoundAnswer(section_number, results),
                           sources |-> section_sources(results),
                           query   |-> SectionWord \o << " " >> \o section_number ],
               calls |-> << LookupCall(index_ok, results) >> ]

(***************************************************************************)
(* Inputs of the segmenter and chunker runs.                               *)
(***************************************************************************)
DocTypes == {"penal_code", "constitution", "unknown"}

\* a unit as extract_sections builds it
Unit(num, dtype, content) ==
    [ document_type  |-> dtype,
      section_number |-> num,
      title          |-> (IF dtype = "penal_code" THEN SectionWord ELSE ArticleWord)
                           \o << " " >> \o num,
      content        |-> content ]

\* Unit bodies for the chunker, enumerated character by character.  A body
\* is what clean_text returns: no leading or trailing whitespace, no "\n",
\* no unsafe character.
ChunkAlphabet == {"a", "7", " ", "."}
ChunkContents == { c \in SeqsUpTo(ChunkAlphabet, MaxLen) : Strip(c) = c }

\* units of several numbers and types, for calls with more than one unit
UnitPool ==
    { Unit(<< n >>, d, c) : n \in {"1", "2"}, d \in {"penal_code", "constitution"},
                            c \in { << "a" >>, << "a", ".", "a", "7", "a" >> } }

ChunkerInputs ==
    { << Unit(<< "1" >>, "penal_code", c) >> : c \in ChunkContents }
        \cup UNION { [1..k -> UnitPool] : k \in 2..MaxUnits }

\* Texts for the segmenter: up to MaxUnits blocks of a heading and a body.
SegHeadings == { SectionWord \o << " ", "1", " " >>,
                 SectionWord \o << " ", "2", "\n" >>,
                 ArticleWord \o << " ", "1", " " >> }

SegBodies ==
    { Rep("a", 50),                                    \* exactly 50 characters
      Rep("a", 51),                                    \* 51 characters
      Rep("@", 51),                                    \* only unsafe characters
      Rep("7", 51),                                    \* a lone number
      Rep("a", 16) \o << " ", "@", " " >> \o Rep("a", 16)
          \o << " ", "@", " " >> \o Rep("a", 13),      \* 51 raw, 49 cleaned
      Rep("a", 25) \o << ".", "\n", "\n" >> \o Rep("b", 25) }  \* two sentences

SegBlocks == { h \o b \o << " " >> : h \in SegHeadings, b \in SegBodies }

RECURSIVE Concat(_)
Concat(ss) == IF ss = << >> THEN << >> ELSE Head(ss) \o Concat(Tail(ss))

SegTexts == { Concat(bs) : bs \in UNION { [1..k -> SegBlocks] : k \in 1..MaxUnits } }

(***************************************************************************)
(* Initial values of the three groups of variables.                        *)
(***************************************************************************)
SegIdle ==
    /\ text = << >>
    /\ document_type = "unknown"
    /\ seg_call = "none"
    /\ seg_sections = << >>

ChunkIdle ==
    /\ sections = << >>
    /\ chunk_call = "none"
    /\ all_chunks = << >>

SysIdle ==
    /\ pdf_directory = << >>
    /\ processed_file = [ sections |-> << >>, exists |-> FALSE ]
    /\ collection = << >>
    /\ result = [ op |-> "none" ]
    /\ calls = << >>
    /\ rebuilds = 0

(***************************************************************************)
(* The segmenter run: one call of extract_sections or of process_pdf.      *)
(***************************************************************************)
InitSegmenter ==
    /\ text \in SegTexts
    /\ document_type \in DocTypes
    /\ seg_call = "none"
    /\ seg_sections = << >>
    /\ ChunkIdle
    /\ SysIdle

CallExtractSections ==
    /\ seg_call = "none"
    /\ seg_call' = "extract_sections"
    /\ seg_sections' = extract_sections(text, document_type)
    /\ UNCHANGED << text, document_type, chunkVars, sysVars >>

CallProcessPdf ==
    /\ seg_call = "none"
    /\ seg_call' = "process_pdf"
    /\ seg_sections' = process_pdf(text, document_type)
    /\ UNCHANGED << text, document_type, chunkVars, sysVars >>

\* the units of the segmenter call handed on to create_chunks, as
\* setup_database does (rag_system.py lines 41 and 61)
ChunkUnits ==
    /\ seg_call # "none"
    /\ chunk_call = "none"
    /\ sections' = seg_sections
    /\ chunk_call' = "create_chunks"
    /\ all_chunks' = create_chunks(seg_sections)
    /\ UNCHANGED << segVars, sysVars >>

NextSegmenter == CallExtractSections \/ CallProcessPdf \/ ChunkUnits

SpecSegmenter == InitSegmenter /\ [][NextSegmenter]_vars

(***************************************************************************)
(* The chunker run: one call of create_chunks.                             *)
(***************************************************************************)
InitChunker ==
    /\ sections \in ChunkerInputs
    /\ chunk_call = "none"
    /\ all_chunks = << >>
    /\ SegIdle
    /\ SysIdle

CallCreateChunks ==
    /\ chunk_call = "none"
    /\ chunk_call' = "create_chunks"
    /\ all_chunks' = create_chunks(sections)
    /\ UNCHANGED << sections, segVars, sysVars >>

NextChunker == CallCreateChunks

SpecChunker == InitChunker /\ [][NextChunker]_vars

(***************************************************************************)
(* The token-window run: one call of split_text_by_tokens, one iteration   *)
(* of its loop at a time.  `result` holds the locals of the call.          *)
(***************************************************************************)
\* encoding.encode(text): the tokens of count_tokens, each with the
\* whitespace before it; whitespace at the end of the text is a token of its
\* own
encode(t) ==
    LET cuts == { i \in 1..Len(t) :
                    \/ i = Len(t)
                    \/ /\ t[i] \notin Whitespace
                       /\ TokClass(t[i + 1]) # TokClass(t[i]) }
        cutAt(k) == CHOOSE c \in cuts : Cardinality({ d \in cuts : d <= c }) = k
    IN  [ k \in 1..Cardinality(cuts) |->
            SubSeq(t, IF k = 1 THEN 1 ELSE cutAt(k - 1) + 1, cutAt(k)) ]

\* encoding.decode(tokens)
decode(tokens) == Concat(tokens)

\* a python slice s[a:b], b within the sequence: a negative a counts from
\* the end
PySlice(s, a, b) ==
    LET from == IF a >= 0 THEN a
                ELSE IF a + Len(s) >= 0 THEN a + Len(s) ELSE 0
    IN  SubSeq(s, from + 1, b)

TokenTexts == SeqsUpTo({ "a", ".", " " }, MaxLen)

InitTokens ==
    /\ SegIdle
    /\ ChunkIdle
    /\ pdf_directory = << >>
    /\ processed_file = [ sections |-> << >>, exists |-> FALSE ]
    /\ collection = << >>
    /\ calls = << >>
    /\ rebuilds = 0
    /\ \E t \in TokenTexts, cs \in 1..MaxChunkSize :
         \E ov \in 0..(cs - 1) :
            result = [ text |-> t, chunk_size |-> cs, chunks |-> << >>,
                       op |-> "split_text_by_tokens", tokens |-> encode(t),
                       chunk_overlap |-> ov, start |-> 0, appended |-> 0,
                       pc |-> "while" ]

\* one iteration of the while loop (lines 26-36); the windows after the
\* first MaxWindows are not recorded, `appended` is len(chunks) counted
\* modulo MaxWindows + 1
SplitWindow ==
    /\ result.pc = "while"
    /\ result.start < Len(result.tokens)
    /\ \E end \in { Min({ result.start + result.chunk_size, Len(result.tokens) }) } :
         \E chunk_text \in { decode(PySlice(result.tokens, result.start, end)) } :
            result' = [ result EXCEPT
                          !.chunks = IF Len(@) < MaxWindows THEN Append(@, chunk_text)
                                     ELSE @,
                          !.start  = end - result.chunk_overlap,
                          !.appended = (@ + 1) % (MaxWindows + 1),
                          !.pc     = IF end - result.chunk_overlap >= Len(result.tokens)
                                     THEN "return" ELSE "while" ]
    /\ UNCHANGED << pdf_directory, processed_file, collection, calls, rebuilds,
                    segVars, chunkVars >>

\* the loop condition found false: return chunks (line 38)
SplitReturn ==
    /\ result.pc = "while"
    /\ result.start >= Len(result.tokens)
    /\ result' = [ result EXCEPT !.pc = "return" ]
    /\ UNCHANGED << pdf_directory, processed_file, collection, calls, rebuilds,
                    segVars, chunkVars >>

NextTokens == SplitWindow \/ SplitReturn

\* the call is a running thread of the program: it takes its next step
SpecTokens == InitTokens /\ [][NextTokens]_vars /\ WF_vars(NextTokens)

(***************************************************************************)
(* The running system: setup, queries, reset, and the documents changing   *)
(* under it.                                                               *)
(***************************************************************************)
Heading(kw, n) == kw \o << " " >> \o n \o << " " >>

BodyA == Rep("a", 51)
BodyB == Rep("b", 51)
\* three sentences, more than chunk_size tokens
BodyLong == Rep("a", 25) \o << ".", " " >> \o Rep("b", 25) \o << ".", " " >>
                \o Rep("c", 25) \o << "." >>

PenalA    == [ raw_text |-> Heading(SectionWord, << "1" >>) \o BodyA, kind |-> "penal",
               pdf |-> TRUE ]
\* the same document with section 1 reworded
PenalB    == [ raw_text |-> Heading(SectionWord, << "1" >>) \o BodyB, kind |-> "penal",
               pdf |-> TRUE ]
PenalLong == [ raw_text |-> Heading(SectionWord, << "1" >>) \o BodyLong, kind |-> "penal",
               pdf |-> TRUE ]
\* a section of more chunks than one lookup retrieves: twenty-one sentences
\* of one token each
BodyMany  == Rep("a", 2) \o [ i \in 1..80 |-> << ".", " ", "a", "a" >>[((i - 1) % 4) + 1] ]
                \o << "." >>
PenalMany == [ raw_text |-> Heading(SectionWord, << "1" >>) \o BodyMany, kind |-> "penal",
               pdf |-> TRUE ]
\* a section of several chunks, the first of them longer than a preview: one
\* sentence of 201 letters and ten sentences of one token each
BodyWide  == Rep("a", PreviewLen + 1)
                \o [ i \in 1..40 |-> << ".", " ", "b", "b" >>[((i - 1) % 4) + 1] ]
                \o << "." >>
PenalWide == [ raw_text |-> Heading(SectionWord, << "1" >>) \o BodyWide, kind |-> "penal",
               pdf |-> TRUE ]
\* section 1 twice
PenalDup  == [ raw_text |-> Heading(SectionWord, << "1" >>) \o BodyA \o << "\n" >>
                              \o Heading(SectionWord, << "1" >>) \o BodyB, kind |-> "penal",
               pdf |-> TRUE ]
ConstA    == [ raw_text |-> Heading(ArticleWord, << "1" >>) \o BodyB, kind |-> "constitution",
               pdf |-> TRUE ]
\* a file whose text cannot be extracted
Broken    == [ raw_text |-> << >>, kind |-> "penal", pdf |-> TRUE ]
\* a file whose name gives no document type
Other     == [ raw_text |-> Heading(SectionWord, << "1" >>) \o BodyA, kind |-> "other",
               pdf |-> TRUE ]

Corpora == { << PenalA >>, << PenalB, ConstA >>, << PenalDup >>,
             << Broken, Other >> }

\* the documents of the query runs: those, and a corpus with a section of
\* several chunks
IndexedCorpora == Corpora \cup { << PenalLong, ConstA >>, << PenalMany >>, << PenalWide >> }

\* the embedding calls of one run that fail: any of the first MaxFailed, or all
FailedSets(n) == SUBSET (1..(IF n < MaxFailed THEN n ELSE MaxFailed)) \cup { 1..n }

Questions == { << "a" >> }
\* the vectors and result counts search_similar is called with
QueryVectors == { Vec(<< "a" >>), Vec(<< "c" >>), NoVector }
Ks == { 0, 1, 2, 5 }
\* a section number the documents have, and one they do not have
SectionNumbers == { << "1" >>, << "9" >> }
NResults  == { 1, 5 }
Filters   == { "", "penal_code", "constitution" }
EmbedOutcomes == { "ok", "raise" }
GenOutcomes   == { "text", "blank", "empty", "raise" }

Init ==
    /\ pdf_directory \in Corpora
    /\ processed_file = NoCache
    /\ collection = << >>
    /\ result = [ op |-> "none" ]
    /\ calls = << >>
    /\ rebuilds = 0
    /\ SegIdle
    /\ ChunkIdle

\* setup_database(force_rebuild)
setup_database ==
    \E force_rebuild \in BOOLEAN, stats_ok \in BOOLEAN :
        /\ UNCHANGED << pdf_directory, segVars, chunkVars >>
        /\ IF total_documents(collection, stats_ok) > 0 /\ ~force_rebuild
           THEN /\ result' = [ force_rebuild |-> force_rebuild, ret |-> TRUE,
                               op |-> "setup" ]
                /\ calls' = << >>
                /\ rebuilds' = 0
                /\ UNCHANGED << processed_file, collection >>
           ELSE \E reprocess \in { ~processed_file.exists \/ force_rebuild },
                   secs \in { setup_sections(force_rebuild, pdf_directory,
                                             processed_file) } :
                    IF reprocess /\ secs = << >>
                    THEN /\ result' = [ force_rebuild |-> force_rebuild, ret |-> FALSE,
                                        op |-> "setup" ]
                         /\ calls' = << >>
                         /\ rebuilds' = 0
                         /\ UNCHANGED << processed_file, collection >>
                    ELSE \E failed \in SUBSET (1..Len(create_chunks(secs))),
                            index_ok \in BOOLEAN :
                          \E r \in { build_index(collection, secs, failed, index_ok) } :
                               /\ processed_file' =
                                     IF reprocess
                                     THEN [ sections |-> secs, exists |-> TRUE ]
                                     ELSE processed_file
                               /\ collection' = r.collection
                               /\ result' = [ force_rebuild |-> force_rebuild,
                                              ret |-> r.ret,
                                              op |-> "setup" ]
                               /\ calls' = r.calls
                               /\ rebuilds' = IF force_rebuild /\ r.ret
                                              THEN (IF rebuilds < 2 THEN rebuilds + 1
                                                    ELSE 2)
                                              ELSE 0

Query ==
    \E question \in Questions, n_results \in NResults, dtype \in Filters,
       embed_out \in EmbedOutcomes, index_ok \in BOOLEAN, gen_out \in GenOutcomes :
      \E r \in { query(question, n_results, dtype, collection, embed_out, index_ok,
                        gen_out) } :
            /\ result' = [ document_type |-> dtype, question |-> question, n_results |-> n_results,
                           ret |-> r.ret, op |-> "query" ]
            /\ calls' = r.calls
            /\ rebuilds' = 0
            /\ UNCHANGED << pdf_directory, processed_file, collection, segVars, chunkVars >>

\* search_section(section_number, document_type)
SearchSection ==
    \E section_number \in SectionNumbers, dtype \in Filters, index_ok \in BOOLEAN :
      \E r \in { search_section(section_number, dtype, collection, index_ok) } :
            /\ result' = [ document_type |-> dtype, section_number |-> section_number,
                           ret |-> r.ret, op |-> "search_section" ]
            /\ calls' = r.calls
            /\ rebuilds' = 0
            /\ UNCHANGED << pdf_directory, processed_file, collection, segVars, chunkVars >>

\* search_similar(query_embedding, n_results, filter_metadata)
SearchSimilar ==
    \E query_embedding \in QueryVectors, n_results \in Ks, dtype \in Filters,
       index_ok \in BOOLEAN :
      \E r \in { search_similar(collection, query_embedding, n_results, dtype, index_ok) } :
            /\ result' = [ document_type |-> dtype, embedding |-> query_embedding,
                           n_results |-> n_results, ret |-> r, op |-> "search_similar" ]
            /\ calls' = << SearchCall(index_ok /\ n_results > 0
                                           /\ query_embedding.dim # 0, r) >>
            /\ rebuilds' = 0
            /\ UNCHANGED << pdf_directory, processed_file, collection, segVars, chunkVars >>

\* reset_database: the collection deleted and created anew (left as it is
\* when the deletion raises), the cache removed
reset_database ==
    /\ \E delete_ok \in BOOLEAN :
           collection' = IF delete_ok THEN << >> ELSE collection
    /\ processed_file' = NoCache
    /\ result' = [ op |-> "reset" ]
    /\ calls' = << >>
    /\ rebuilds' = 0
    /\ UNCHANGED << pdf_directory, segVars, chunkVars >>

\* the documents of the pdf directory are replaced (outside the program)
ReplaceDocuments ==
    \E c \in Corpora \ { pdf_directory } :
        /\ pdf_directory' = c
        /\ result' = [ op |-> "replace_documents" ]
        /\ calls' = << >>
        /\ rebuilds' = 0
        /\ UNCHANGED << processed_file, collection, segVars, chunkVars >>

Next == setup_database \/ reset_database \/ ReplaceDocuments

Spec == Init /\ [][Next]_vars

\* The query runs start from a system set up once over its documents.
InitQuery ==
    /\ pdf_directory \in IndexedCorpora
    /\ \E secs \in { process_all_pdfs(pdf_directory) } :
           IF secs = << >>
           THEN /\ processed_file = NoCache
                /\ collection = << >>
                /\ result = [ force_rebuild |-> FALSE, ret |-> FALSE, op |-> "setup" ]
                /\ calls = << >>
           ELSE \E failed \in FailedSets(Len(create_chunks(secs))) :
                  \E r \in { build_index(<< >>, secs, failed, TRUE) } :
                      /\ processed_file = [ sections |-> secs, exists |-> TRUE ]
                      /\ collection = r.collection
                      /\ result = [ force_rebuild |-> FALSE, ret |-> r.ret,
                                    op |-> "setup" ]
                      /\ calls = r.calls
    /\ rebuilds = 0
    /\ SegIdle
    /\ ChunkIdle

NextQuery == Query \/ SearchSection \/ SearchSimilar

SpecQuery == InitQuery /\ [][NextQuery]_vars

(***************************************************************************)
(* The embedding run: one call of generate_embeddings.                     *)
(***************************************************************************)
EmbedTexts == SeqsUpTo({ << "a" >>, << "b" >>, << "c", "c" >> }, MaxTexts)

InitEmbed ==
    /\ SysIdle
    /\ SegIdle
    /\ ChunkIdle

\* generate_embeddings(texts)
GenerateEmbeddings ==
    /\ result.op = "none"
    /\ \E texts \in EmbedTexts :
         \E failed \in SUBSET (1..Len(texts)) :
            /\ result' = [ texts |-> texts, failed |-> failed,
                           ret |-> generate_embeddings(texts, failed),
                           op |-> "generate_embeddings" ]
            /\ calls' = EmbedLog(texts, failed)
    /\ UNCHANGED << pdf_directory, processed_file, collection, rebuilds,
                    segVars, chunkVars >>

NextEmbed == GenerateEmbeddings

SpecEmbed == InitEmbed /\ [][NextEmbed]_vars

(***************************************************************************)
(* Overlapping queries: the calls of Callers run query and search_section  *)
(* at the same time over one system, no setup or reset running.  A call    *)
(* of query goes through its three collaborators one step at a time, its   *)
(* local variables kept in its own record; `result` holds the record of    *)
(* each call.                                                              *)
(***************************************************************************)
Callers == { 1, 2 }

\* one slot of local variables for all the calls of a method: that of the
\* first of them
Locals_shared(rs, p) ==
    rs[CHOOSE q \in DOMAIN rs :
         /\ rs[q].op = rs[p].op
         /\ \A r \in DOMAIN rs : rs[r].op = rs[p].op => q <= r]

\* the local variables of call p
Locals(rs, p) == rs[p]

QueryCalls ==
    { [ document_type |-> dtype, question |-> question, index_ok |-> TRUE,
        n_results |-> n_results, query_embedding |-> NoVector, ret |-> << >>,
        similar_docs |-> << >>, embed_out |-> "ok", gen_out |-> "text",
        op |-> "query", pc |-> "start" ] :
        dtype \in { "", "penal_code" }, question \in { << "a" >>, << "c" >> },
        n_results \in NResults }

LookupCalls ==
    { [ document_type |-> dtype, section_number |-> << "1" >>, index_ok |-> TRUE,
        ret |-> << >>, op |-> "search_section", pc |-> "start" ] :
        dtype \in { "", "penal_code" } }

InitOverlap ==
    /\ pdf_directory \in { << PenalLong, ConstA >>, << PenalB, ConstA >> }
    /\ \E secs \in { process_all_pdfs(pdf_directory) } :
          /\ processed_file = [ sections |-> secs, exists |-> TRUE ]
          /\ collection = build_index(<< >>, secs, {}, TRUE).collection
    /\ result \in [ Callers -> QueryCalls \cup LookupCalls ]
    /\ calls = << >>
    /\ rebuilds = 0
    /\ SegIdle
    /\ ChunkIdle

overlapUnchanged ==
    << pdf_directory, processed_file, collection, calls, rebuilds, segVars, chunkVars >>

\* query, lines 88-95: the embedding of the question
EmbedStep(p) ==
    /\ result[p].op = "query" /\ result[p].pc = "start"
    /\ \E embed_out \in EmbedOutcomes :
         \E v \in { generate_embedding_for_query(result[p].question, embed_out) } :
            result' = [ result EXCEPT ![p] =
                          [ @ EXCEPT !.embed_out = embed_out,
                                     !.query_embedding = v,
                                     !.pc = IF v.dim = 0 THEN "done" ELSE "embedded",
                                     !.ret = IF v.dim = 0
                                             THEN [ answer |-> ApologyQuery,
                                                    sources |-> << >>,
                                                    error |-> "Failed to generate query embedding" ]
                                             ELSE << >> ] ]
    /\ UNCHANGED overlapUnchanged

\* query, lines 97-113: the search for similar documents
SearchStep(p) ==
    /\ result[p].op = "query" /\ result[p].pc = "embedded"
    /\ \E index_ok \in BOOLEAN :
         \E docs \in { search_similar(collection, Locals(result, p).query_embedding,
                                       result[p].n_results, result[p].document_type,
                                       index_ok) } :
            result' = [ result EXCEPT ![p] =
                          [ @ EXCEPT !.index_ok = index_ok,
                                     !.similar_docs = docs,
                                     !.pc = IF docs = << >> THEN "done" ELSE "searched",
                                     !.ret = IF docs = << >>
                                             THEN [ answer |-> NoInfoQuery,
                                                    sources |-> << >>,
                                                    error |-> "No relevant documents found" ]
                                             ELSE << >> ] ]
    /\ UNCHANGED overlapUnchanged

\* query, lines 115-134: the answer and the sources
GenerateStep(p) ==
    /\ result[p].op = "query" /\ result[p].pc = "searched"
    /\ \E gen_out \in { "text", "raise" } :
          result' = [ result EXCEPT ![p] =
                        [ @ EXCEPT !.gen_out = gen_out,
                                   !.pc = "done",
                                   !.ret = [ answer  |-> generate_answer(
                                                           result[p].question,
                                                           Locals(result, p).similar_docs,
                                                           gen_out),
                                             sources |-> query_sources(
                                                           Locals(result, p).similar_docs),
                                             query   |-> result[p].question ] ] ]
    /\ UNCHANGED overlapUnchanged

\* search_section, in one step
LookupStep(p) ==
    /\ result[p].op = "search_section" /\ result[p].pc = "start"
    /\ \E index_ok \in BOOLEAN :
          result' = [ result EXCEPT ![p] =
                        [ @ EXCEPT !.index_ok = index_ok,
                                   !.pc = "done",
                                   !.ret = search_section(result[p].section_number,
                                                          result[p].document_type,
                                                          collection, index_ok).ret ] ]
    /\ UNCHANGED overlapUnchanged

NextOverlap ==
    \E p \in Callers : EmbedStep(p) \/ SearchStep(p) \/ GenerateStep(p) \/ LookupStep(p)

SpecOverlap == InitOverlap /\ [][NextOverlap]_vars

(***************************************************************************)
(* The boundary run: extract_sections or process_pdf over a text made of   *)
(* up to MaxHeadings blocks, each a heading (keyword, number, separator)   *)
(* followed by a body.                                                     *)
(***************************************************************************)
BoundaryHeadings ==
    { << SectionWord, << "3", "0", "2" >>, << " " >> >>,
      << SectionWord, << "3", "0", "3" >>, << "\n" >> >>,
      << LowerSeq(SectionWord), << "5" >>, << " " >> >>,
      << ArticleWord, << "1" >>, << ":", " " >> >> }

BoundaryBodies ==
    { Rep("a", 51),
      Rep("b", 25) \o << ".", "\n", "\n" >> \o Rep("c", 25),
      Rep("a", 50) }

BoundaryBlocks == BoundaryHeadings \X BoundaryBodies

BlockText(bl) == bl[1][1] \o << " " >> \o bl[1][2] \o bl[1][3] \o bl[2] \o << " " >>

BoundaryTexts ==
    { Concat([ k \in 1..Len(bs) |-> BlockText(bs[k]) ]) :
        bs \in UNION { [1..k -> BoundaryBlocks] : k \in 1..MaxHeadings } }

InitBoundaries ==
    /\ text \in BoundaryTexts
    /\ document_type \in DocTypes
    /\ seg_call = "none"
    /\ seg_sections = << >>
    /\ ChunkIdle
    /\ SysIdle

NextBoundaries == CallExtractSections \/ CallProcessPdf

SpecBoundaries == InitBoundaries /\ [][NextBoundaries]_vars

(***************************************************************************)
(* The corpus run: one call of process_all_pdfs over a directory some of   *)
(* whose files give no text.                                               *)
(***************************************************************************)
Directories == SeqsUpTo({ PenalA, PenalB, ConstA }, MaxFiles)

\* the files as extract_text_from_pdf sees them: "" for those of `failed`,
\* whose extraction returns nothing or raises in both methods
Extracted(files, failed) ==
    [ k \in 1..Len(files) |->
        IF k \in failed
        THEN [ raw_text |-> << >>, kind |-> files[k].kind, pdf |-> files[k].pdf ]
        ELSE files[k] ]

InitCorpus ==
    /\ pdf_directory \in Directories
    /\ processed_file = NoCache
    /\ collection = << >>
    /\ result = [ op |-> "none" ]
    /\ calls = << >>
    /\ rebuilds = 0
    /\ SegIdle
    /\ ChunkIdle

\* process_all_pdfs()
ProcessAllPdfs ==
    /\ result.op = "none"
    /\ \E failed \in SUBSET (1..Len(pdf_directory)) :
          result' = [ failed |-> failed,
                      ret |-> process_all_pdfs(Extracted(pdf_directory, failed)),
                      op |-> "process_all_pdfs" ]
    /\ UNCHANGED << pdf_directory, processed_file, collection, calls, rebuilds,
                    segVars, chunkVars >>

NextCorpus == ProcessAllPdfs

SpecCorpus == InitCorpus /\ [][NextCorpus]_vars

(***************************************************************************)
(* Properties of the chunker and segmenter runs.                           *)
(***************************************************************************)
SameUnit(a, b) ==
    a.section_number = b.section_number /\ a.document_type = b.document_type

\* the chunks that carry the number and type of unit u, in output order
ChunksOf(u) == SelectSeq(all_chunks, LAMBDA c : SameUnit(c, u))

\* unit k is the only unit of the call with its number and type
OnlyOne(k) == \A j \in 1..Len(sections) : SameUnit(sections[j], sections[k]) => j = k

NotSpace(c) == c \notin Whitespace
NoWs(t) == SelectSeq(t, NotSpace)

RECURSIVE JoinContents(_)
JoinContents(cs) == IF cs = << >> THEN << >>
                    ELSE Head(cs).content \o << " " >> \o JoinContents(Tail(cs))

\* C3: the chunks that create_chunks emits for the units of a segmented
\* text have pairwise distinct ids.
C3_ChunkIdsUnique ==
    chunk_call = "create_chunks" =>
        \A i, j \in 1..Len(all_chunks) :
            all_chunks[i].id = all_chunks[j].id => i = j

\* C4 as stated: a chunk whose token count exceeds chunk_size is the sole
\* chunk of its unit.
C4_OversizedIsSole ==
    chunk_call = "create_chunks" =>
        \A k \in 1..Len(all_chunks) :
            count_tokens(all_chunks[k].content) > chunk_size
                => all_chunks[k].total_chunks = 1

\* C4 as amended: every chunk has at most chunk_size tokens, except a chunk
\* that is one single sentence of its unit (a sentence that alone exceeds
\* chunk_size); such a chunk may be one of several chunks of its unit.
C4_TokenBound ==
    chunk_call = "create_chunks" =>
        \A k \in 1..Len(all_chunks) :
            \/ count_tokens(all_chunks[k].content) <= chunk_size
            \/ \E u \in 1..Len(sections) :
                   /\ SameUnit(all_chunks[k], sections[u])
                   /\ \E s \in 1..Len(Sentences(sections[u].content)) :
                          Sentences(sections[u].content)[s] = all_chunks[k].content

\* an oversized chunk in a unit of several chunks
C4_Witness ==
    /\ chunk_call = "create_chunks"
    /\ \E k \in 1..Len(all_chunks) :
           /\ count_tokens(all_chunks[k].content) > chunk_size
           /\ all_chunks[k].total_chunks > 1

\* C5: for every unit, the contents of its chunks joined in chunk_index
\* order are the unit body up to whitespace.
C5_RoundTrip ==
    chunk_call = "create_chunks" =>
        \A u \in 1..Len(sections) :
            OnlyOne(u) =>
                NoWs(JoinContents(ChunksOf(sections[u]))) = NoWs(sections[u].content)

\* C6: every chunk has 0 <= chunk_index < total_chunks; the chunks of a unit
\* carry the indices 0..total_chunks-1 in order and the same total_chunks.
C6_ChunkIndexing ==
    chunk_call = "create_chunks" =>
        /\ \A p \in 1..Len(all_chunks) :
               LET c == all_chunks[p]
               IN  /\ 0 <= c.chunk_index
                   /\ c.chunk_index < c.total_chunks
                   /\ c.chunk_index > 0 =>
                          /\ p > 1
                          /\ SameUnit(all_chunks[p - 1], c)
                          /\ all_chunks[p - 1].chunk_index = c.chunk_index - 1
                          /\ all_chunks[p - 1].total_chunks = c.total_chunks
                   /\ c.chunk_index < c.total_chunks - 1 =>
                          /\ p < Len(all_chunks)
                          /\ SameUnit(all_chunks[p + 1], c)
                          /\ all_chunks[p + 1].chunk_index = c.chunk_index + 1
        /\ \A u \in 1..Len(sections) :
               OnlyOne(u) =>
                   LET cs == ChunksOf(sections[u])
                   IN  \A k \in 1..Len(cs) :
                           /\ cs[k].chunk_index = k - 1
                           /\ cs[k].total_chunks = Len(cs)

\* a unit split into several chunks, seen at its last chunk
C6_Witness ==
    /\ chunk_call = "create_chunks"
    /\ \E p \in 1..Len(all_chunks) :
           /\ all_chunks[p].total_chunks >= 2
           /\ all_chunks[p].chunk_index = all_chunks[p].total_chunks - 1

\* C7: every unit the segmenter returns has a body of at least 50 characters.
C7_MinUnitSize ==
    seg_call # "none" =>
        \A k \in 1..Len(seg_sections) : Len(seg_sections[k].content) >= MinSectionLen

(***************************************************************************)
(* Properties of the running system.                                       *)
(***************************************************************************)
\* the collection's count()
count(col) == total_documents(col, TRUE)

ForcedSetupDone(r) == r.op = "setup" /\ r.force_rebuild /\ r.ret

\* C1: when setup_database(force_rebuild=True) succeeds twice in a row over
\* the same documents, the collection's count after the second run equals
\* its count after the first run.
C1_RebuildIdempotent ==
    [][ ( /\ ForcedSetupDone(result)
          /\ ForcedSetupDone(result')
          /\ pdf_directory' = pdf_directory )
            => count(collection') = count(collection) ]_vars

\* a second successful forced rebuild over the same documents, on an index
\* that holds chunks
C1_Witness ==
    /\ rebuilds = 2
    /\ ForcedSetupDone(result)
    /\ count(collection) > 0

\* the chunks the last setup_database call handed to add_documents
ChunksAdded == add_metadata(create_chunks(processed_file.sections))

EntriesOf(id) == { i \in 1..Len(collection) : collection[i].id = id }

\* C2: after add_documents has succeeded, the collection holds for the id of
\* every chunk it was given exactly one entry, and that entry carries the
\* content and the metadata of that chunk.
C2_InsertOverwrites ==
    ( /\ result.op = "setup"
      /\ result.ret
      /\ calls # << >>
      /\ calls[Len(calls)].to = "collection.add"
      /\ calls[Len(calls)].out = "ok" )
        => \A k \in 1..Len(ChunksAdded) :
               /\ Cardinality(EntriesOf(ChunksAdded[k].id)) = 1
               /\ \A i \in EntriesOf(ChunksAdded[k].id) :
                      /\ collection[i].document = ChunksAdded[k].content
                      /\ collection[i].metadata = chunk_metadata(ChunksAdded[k])

HasKey(r, key) == key \in DOMAIN r

Invoked(to) == \E k \in 1..Len(calls) : calls[k].to = to

\* the query call found the embedding of the question empty
EmbeddingFailed ==
    /\ result.op = "query"
    /\ Len(calls) >= 1
    /\ calls[1].to = "embed_content"
    /\ calls[1].n = 0

\* the query call embedded the question and the search gave back n chunks
Retrieved(n) ==
    /\ result.op = "query"
    /\ Len(calls) >= 2
    /\ calls[1].to = "embed_content"
    /\ calls[1].n > 0
    /\ calls[2].to = "collection.query"
    /\ calls[2].n = n

\* C8: when the embedding of the question comes back empty, query returns
\* the apology answer, no sources and an error, and invokes neither the
\* similarity search nor the generation service.
C8_EmbeddingFailure ==
    EmbeddingFailed =>
        /\ result.ret.answer = ApologyQuery
        /\ result.ret.sources = << >>
        /\ HasKey(result.ret, "error")
        /\ ~Invoked("collection.query")
        /\ ~Invoked("generate_content")

\* the embedding of a question failed while the collection holds chunks
C8_Witness ==
    /\ EmbeddingFailed
    /\ count(collection) > 0
    /\ result.ret.answer = ApologyQuery

\* C9: when the question is embedded and the similarity search gives back no
\* chunk, query returns the 'no relevant information' answer, no sources and
\* an error, and does not invoke the generation service.
C9_EmptyRetrieval ==
    Retrieved(0) =>
        /\ result.ret.answer = NoInfoQuery
        /\ result.ret.sources = << >>
        /\ HasKey(result.ret, "error")
        /\ ~Invoked("generate_content")

\* a search that ran and matched nothing in a collection that holds chunks
C9_Witness ==
    /\ Retrieved(0)
    /\ calls[2].out = "ok"
    /\ count(collection) > 0
    /\ result.ret.answer = NoInfoQuery

\* C10: when the search gave back at least one chunk, query returns no error
\* and one source per retrieved chunk whatever the generation service does:
\* the error description as the answer when it raises, the fixed apology
\* when its response is empty, its text otherwise.
C10_GenerationNeverFails ==
    \A n \in 1..Len(collection) :
        Retrieved(n) =>
            /\ ~HasKey(result.ret, "error")
            /\ HasKey(result.ret, "query")
            /\ Len(result.ret.sources) = n
            /\ Len(calls) = 3
            /\ calls[3].to = "generate_content"
            /\ calls[3].out = "raise" => result.ret.answer = ErrorGeneration
            /\ calls[3].out = "empty" => result.ret.answer = ApologyGeneration
            /\ calls[3].out = "text"  => result.ret.answer = GeneratedText

\* the generation service raised after a search that gave back chunks
C10_Witness ==
    /\ \E n \in 1..Len(collection) : Retrieved(n)
    /\ Len(calls) = 3
    /\ calls[3].out = "raise"
    /\ result.ret.answer = ErrorGeneration

\* the stored chunks a lookup of section_number (and dtype, when given) is for
Matching(col, section_number, dtype) ==
    { i \in 1..Len(col) :
        /\ col[i].metadata.section_number = section_number
        /\ dtype = "" \/ col[i].metadata.document_type = dtype }

\* C11: when no stored chunk has the section number (and the document type,
\* when given) that search_section is called with, it returns the 'not
\* found' answer, no sources and an error, and leaves the collection as it was.
C11_LookupMissing ==
    [][ ( /\ result'.op = "search_section"
          /\ Matching(collection, result'.section_number, result'.document_type) = {} )
            => /\ result'.ret.answer = NotFoundAnswer(result'.section_number)
               /\ result'.ret.sources = << >>
               /\ HasKey(result'.ret, "error")
               /\ collection' = collection ]_vars

\* a lookup that the index answered and that matched nothing in a collection
\* that holds chunks
C11_Witness ==
    /\ result.op = "search_section"
    /\ Matching(collection, result.section_number, result.document_type) = {}
    /\ count(collection) > 0
    /\ calls[1].out = "ok"
    /\ result.ret.answer = NotFoundAnswer(result.section_number)

\* the stored chunks at the positions M, in ascending chunk_index order
ByChunkIndex(col, M) ==
    [ r \in 1..Cardinality(M) |->
        LET i == CHOOSE i \in M :
                   Cardinality({ j \in M : col[j].metadata.chunk_index
                                             < col[i].metadata.chunk_index }) = r - 1
        IN  [ content  |-> col[i].document,
              id       |-> col[i].id,
              metadata |-> col[i].metadata ] ]

\* C12: when search_section is called with a document type and finds the
\* section, which is stored as no more chunks than one lookup retrieves, the
\* body of its answer and its sources list present the chunks of the section
\* in ascending chunk_index order.
C12_LookupOrdered ==
    ( /\ result.op = "search_section"
      /\ result.document_type # ""
      /\ HasKey(result.ret, "query")
      /\ Cardinality(Matching(collection, result.section_number,
                              result.document_type)) <= LookupLimit )
        => LET ordered == ByChunkIndex(collection,
                              Matching(collection, result.section_number,
                                       result.document_type))
           IN  /\ result.ret.answer = FoundAnswer(result.section_number, ordered)
               /\ result.ret.sources = section_sources(ordered)

\* C13: when the index answers the lookup of search_section, the sources of
\* the answer are as many as the stored chunks that have the section number
\* (and the document type, when given), and the body of the answer holds the
\* content of every one of them, however many they are.
C13_LookupComplete ==
    ( /\ result.op = "search_section"
      /\ calls[1].out = "ok" )
        => LET M == Matching(collection, result.section_number, result.document_type)
           IN  /\ Len(result.ret.sources) = Cardinality(M)
               /\ M # {} => Len(result.ret.answer)
                              >= Len(FoundAnswer(result.section_number,
                                                 ByChunkIndex(collection, M)))

\* C14: search_similar returns no more results than n_results and no more
\* than the collection holds; each result is a stored record with its id,
\* content and metadata, its similarity_score is 1 minus the distance of
\* the stored vector from the query vector, and the scores do not increase
\* along the list.
C14_SimilarBoundOrder ==
    result.op = "search_similar"
        => LET r == result.ret
           IN  /\ Len(r) <= result.n_results
               /\ Len(r) <= count(collection)
               /\ \A i \in 1..Len(r) :
                    \E j \in 1..Len(collection) :
                        /\ collection[j].id = r[i].id
                        /\ collection[j].document = r[i].content
                        /\ collection[j].metadata = r[i].metadata
                        /\ r[i].similarity_score
                             = 1 - Distance(result.embedding, collection[j].embedding)
               /\ \A i, j \in 1..Len(r) :
                    i < j => r[i].similarity_score >= r[j].similarity_score

\* five results asked of a collection of two records, both returned, the
\* one stored second first because it is nearer
C14_Witness ==
    /\ result.op = "search_similar"
    /\ result.n_results = 5
    /\ count(collection) = 2
    /\ Len(result.ret) = 2
    /\ result.ret[1].id = collection[2].id
    /\ result.ret[1].similarity_score > result.ret[2].similarity_score

\* C15: when query is called with a document type, every source of the
\* dictionary it returns (the sources are built from the very list handed to
\* generate_answer) has that document type; when search_section is called
\* with a document type, every source it returns has the section number
\* and the document type asked for.
C15_FilterRespected ==
    /\ ( result.op = "query" /\ result.document_type # "" )
          => \A k \in 1..Len(result.ret.sources) :
                result.ret.sources[k].document_type = result.document_type
    /\ ( result.op = "search_section" /\ result.document_type # "" )
          => \A k \in 1..Len(result.ret.sources) :
                /\ result.ret.sources[k].section_number = result.section_number
                /\ result.ret.sources[k].document_type = result.document_type

\* a query for constitution chunks, answered from some, over a collection
\* that also holds a penal code chunk and fewer chunks than were asked for
C15_Witness ==
    /\ result.op = "query"
    /\ result.document_type = "constitution"
    /\ Len(result.ret.sources) > 0
    /\ count(collection) < result.n_results
    /\ \E i \in 1..Len(collection) : collection[i].metadata.document_type = "penal_code"

\* C16: generate_embeddings returns as many vectors as it was given texts;
\* the vector at a position is the service's vector for the text at that
\* position when its embed_content call succeeded, and 768 zeros when the
\* call raised, whatever happened to the calls of the other positions.
C16_EmbedManyPositional ==
    result.op = "generate_embeddings"
        => /\ Len(result.ret) = Len(result.texts)
           /\ \A k \in 1..Len(result.texts) :
                /\ k \in result.failed
                      => result.ret[k].zero /\ result.ret[k].dim = 768
                /\ k \notin result.failed
                      => result.ret[k] = Vec(result.texts[k])

\* three texts, the call of the second one failed
C16_Witness ==
    /\ result.op = "generate_embeddings"
    /\ Len(result.texts) = 3
    /\ result.failed = { 2 }
    /\ result.ret[2] = ZeroVec
    /\ ~result.ret[1].zero
    /\ ~result.ret[3].zero
    /\ calls[2].out = "raise"

\* the embed_content calls of the log
EmbedCalls(log) == { k \in 1..Len(log) : log[k].to = "embed_content" }

\* C17: when every embed_content call of a setup_database run raises,
\* setup_database returns False, no collection.add of the run takes effect,
\* and the collection and its count are left as they were.
C17_EmbeddingBatchFatal ==
    [][ ( /\ result'.op = "setup"
          /\ EmbedCalls(calls') # {}
          /\ \A k \in EmbedCalls(calls') : calls'[k].out = "raise" )
            => /\ result'.ret = FALSE
               /\ \A k \in 1..Len(calls') :
                     ~(calls'[k].to = "collection.add" /\ calls'[k].out = "ok")
               /\ collection' = collection
               /\ count(collection') = count(collection) ]_vars

\* the collection.add of the run raised, and add_documents with it
AddRaised(log) ==
    \E k \in 1..Len(log) : log[k].to = "collection.add" /\ log[k].out = "raise"

\* C18: when the collection.add of a setup_database run raises,
\* add_documents raises to setup_database, which returns False, and the
\* collection holds what it held before: none of the chunks of the batch
\* has been stored.
C18_WriteFailureLoud ==
    [][ ( result'.op = "setup" /\ AddRaised(calls') )
            => /\ result'.ret = FALSE
               /\ collection' = collection ]_vars

\* a failed write of a batch of two chunks into a collection that holds some
C18_Witness ==
    /\ result.op = "setup"
    /\ AddRaised(calls)
    /\ calls[Len(calls)].n = 2
    /\ result.ret = FALSE
    /\ count(collection) > 0

\* the collection.query of the call raised
QueryRaised(log) ==
    \E k \in 1..Len(log) : log[k].to = "collection.query" /\ log[k].out = "raise"

\* C19: when collection.query raises, search_similar and search_by_section
\* return the empty list (the log records no row), query returns no sources
\* and the error 'No relevant documents found', search_section returns no
\* sources and the error 'Section not found', and the collection is left as
\* it was.
C19_QueryFailureSoft ==
    [][ QueryRaised(calls')
            => /\ \A k \in 1..Len(calls') :
                    calls'[k].to = "collection.query" => calls'[k].n = 0
               /\ result'.op = "search_similar" => result'.ret = << >>
               /\ result'.op = "query"
                     => /\ result'.ret.sources = << >>
                        /\ HasKey(result'.ret, "error")
                        /\ result'.ret.error = "No relevant documents found"
               /\ result'.op = "search_section"
                     => /\ result'.ret.sources = << >>
                        /\ HasKey(result'.ret, "error")
                        /\ result'.ret.error = "Section not found"
               /\ collection' = collection ]_vars

\* a question whose search raised over a collection that holds chunks
C19_Witness ==
    /\ result.op = "query"
    /\ QueryRaised(calls)
    /\ count(collection) > 0
    /\ result.ret.error = "No relevant documents found"

\* C20: every dictionary returned by query and by search_section has the
\* keys answer, sources and query, the query being the question asked or
\* the section looked up; when it has the key error, its sources are empty.
C20_AnswerShape ==
    result.op \in { "query", "search_section" }
        => /\ HasKey(result.ret, "answer")
           /\ HasKey(result.ret, "sources")
           /\ HasKey(result.ret, "query")
           /\ result.op = "query" => result.ret.query = result.question
           /\ result.op = "search_section"
                 => result.ret.query = SectionWord \o << " " >> \o result.section_number
           /\ HasKey(result.ret, "error") => result.ret.sources = << >>

\* what search_similar gave the query call whose result the state holds
RetrievedDocs ==
    search_similar(collection, Vec(result.question), result.n_results,
                   result.document_type, TRUE)

Ellipsis == << ".", ".", "." >>

\* C21: when query returns its answer, sources has one entry per retrieved
\* chunk, in the order of the retrieval results (scores not increasing),
\* each with the section number, title, document type and similarity score
\* of its chunk, and with a content_preview that is the whole content when
\* it has at most 200 characters and its first 200 characters followed by
\* '...' otherwise, however many chunks were retrieved.
C21_SourcesMirrorRetrieval ==
    ( result.op = "query" /\ HasKey(result.ret, "query") )
        => LET S == result.ret.sources
               R == RetrievedDocs
           IN  /\ Len(S) = Len(R)
               /\ \A k \in 1..Len(S) :
                    /\ S[k].section_number = R[k].metadata.section_number
                    /\ S[k].title = R[k].metadata.title
                    /\ S[k].document_type = R[k].metadata.document_type
                    /\ S[k].similarity_score = R[k].similarity_score
                    /\ Len(R[k].content) <= 200 => S[k].content_preview = R[k].content
                    /\ Len(R[k].content) > 200
                          => S[k].content_preview
                               = SubSeq(R[k].content, 1, 200) \o Ellipsis
               /\ \A j, k \in 1..Len(S) :
                    j < k => S[j].similarity_score >= S[k].similarity_score

\* more than three chunks retrieved, one of them longer than 200 characters
C21_Witness ==
    /\ result.op = "query"
    /\ HasKey(result.ret, "query")
    /\ Len(result.ret.sources) > 3
    /\ \E k \in 1..Len(result.ret.sources) :
          /\ Len(RetrievedDocs[k].content) > 200
          /\ Len(result.ret.sources[k].content_preview) = 203

\* a setup_database call that returned True has just ended
SetupSucceeded(r) == r.op = "setup" /\ r.ret

\* after reset_database the collection is empty and the cache is gone
ResetEmpties ==
    result'.op = "reset" => count(collection') = 0 /\ processed_file' = NoCache

\* an empty collection stays empty until a setup_database call succeeds
EmptyUntilSetup ==
    ( count(collection) = 0 /\ ~SetupSucceeded(result') ) => count(collection') = 0

\* the setup_database(force_rebuild=False) that follows reset_database
\* segments the documents of the pdf directory anew
SetupAfterResetSegments ==
    ( /\ result.op = "reset"
      /\ result'.op = "setup"
      /\ ~result'.force_rebuild )
        => \/ /\ process_all_pdfs(pdf_directory) = << >>
              /\ ~result'.ret
              /\ processed_file' = NoCache
           \/ /\ process_all_pdfs(pdf_directory) # << >>
              /\ processed_file' = [ sections |-> process_all_pdfs(pdf_directory),
                                     exists |-> TRUE ]

\* C22: after reset_database, count() is 0 and the cache of processed
\* sections is gone; count() stays 0 until a setup_database call succeeds;
\* and the next setup_database(force_rebuild=False) segments the documents
\* again and does not read a cache.
C22_ResetDestructive ==
    [][ ResetEmpties /\ EmptyUntilSetup /\ SetupAfterResetSegments ]_vars

\* the files at the positions outside `failed`, in their order
RECURSIVE Remaining(_, _)
Remaining(files, failed) ==
    IF files = << >> THEN << >>
    ELSE Remaining(SubSeq(files, 1, Len(files) - 1), failed)
            \o (IF Len(files) \in failed THEN << >> ELSE << files[Len(files)] >>)

\* C23: whichever files of the directory give no text, process_all_pdfs
\* returns the sections of the other files, in their order: what it returns
\* for the directory without the failing files.
C23_BadDocumentSkipped ==
    result.op = "process_all_pdfs"
        => result.ret = process_all_pdfs(Remaining(pdf_directory, result.failed))

\* three files, the second without text, the sections of the first and of
\* the third returned
C23_Witness ==
    /\ result.op = "process_all_pdfs"
    /\ Len(pdf_directory) = 3
    /\ result.failed = { 2 }
    /\ Len(result.ret) = 2
    /\ result.ret[1].document_type = doc_type_of(pdf_directory[1])
    /\ result.ret[2].document_type = doc_type_of(pdf_directory[3])

IsPrefix(p, t) == Len(p) <= Len(t) /\ SubSeq(t, 1, Len(p)) = p

\* the blocks a text of the boundary run is made of, in their order
RECURSIVE BlocksOf(_)
BlocksOf(t) ==
    IF t = << >> \/ ~\E bl \in BoundaryBlocks : IsPrefix(BlockText(bl), t) THEN << >>
    ELSE LET bl == CHOOSE bl \in BoundaryBlocks : IsPrefix(BlockText(bl), t)
         IN  << bl >> \o BlocksOf(SubSeq(t, Len(BlockText(bl)) + 1, Len(t)))

\* the heading keyword of a document type, as the titles spell it
KindWord(dtype) == IF dtype = "penal_code" THEN SectionWord ELSE ArticleWord

\* the units of the blocks: one for each block whose body is longer than
\* the minimum, with the number of its heading, the title made of the kind
\* and that number, and the normalized body
RECURSIVE UnitsOf(_, _)
UnitsOf(blocks, dtype) ==
    IF blocks = << >> THEN << >>
    ELSE (IF Len(Strip(Head(blocks)[2])) > 50
          THEN << [ document_type  |-> dtype,
                    section_number |-> Head(blocks)[1][2],
                    title          |-> KindWord(dtype) \o << " " >> \o Head(blocks)[1][2],
                    content        |-> clean_text(Strip(Head(blocks)[2])) ] >>
          ELSE << >>)
         \o UnitsOf(Tail(blocks), dtype)

\* every heading of the blocks is of the kind of the document type
OfKind(blocks, dtype) ==
    \A k \in 1..Len(blocks) : LowerSeq(blocks[k][1][1]) = LowerSeq(KindWord(dtype))

\* C24: for a text made of headings of the document type's kind, each
\* followed by a number and a body, extract_sections returns the units of
\* the headings in document order (those whose body passes the minimum
\* length), each with the number of its heading, the title '<Kind>
\* <number>' and the normalized text between its heading and the next one
\* (or the end of the text) as its body; for a document type other than
\* penal_code and constitution it returns no unit.
C24_UnitBoundaries ==
    seg_call = "extract_sections"
        => /\ document_type \notin { "penal_code", "constitution" }
                 => seg_sections = << >>
           /\ ( /\ document_type \in { "penal_code", "constitution" }
                /\ Concat([ k \in 1..Len(BlocksOf(text)) |-> BlockText(BlocksOf(text)[k]) ])
                      = text
                /\ OfKind(BlocksOf(text), document_type) )
                 => seg_sections = UnitsOf(BlocksOf(text), document_type)

\* 'Section 302 <body> Section 303 <body of two lines>' segmented as penal
\* code: two units, 302 and 303, in that order
C24_Witness ==
    /\ seg_call = "extract_sections"
    /\ document_type = "penal_code"
    /\ Len(seg_sections) = 2
    /\ seg_sections[1].section_number = << "3", "0", "2" >>
    /\ seg_sections[1].title = SectionWord \o << " ", "3", "0", "2" >>
    /\ seg_sections[1].content = Rep("a", 51)
    /\ seg_sections[2].section_number = << "3", "0", "3" >>
    /\ Len(seg_sections[2].content) = 52

\* what the call of record c returns when it runs alone over the collection
\* with the outcomes its collaborators had
AloneAnswer(c, col) ==
    IF c.op = "query"
    THEN query(c.question, c.n_results, c.document_type, col, c.embed_out,
               c.index_ok, c.gen_out).ret
    ELSE search_section(c.section_number, c.document_type, col, c.index_ok).ret

\* C25: no step of a query or search_section call changes the collection,
\* its count or the cache of processed sections; and however the steps of
\* the overlapping calls interleave, each call returns what it returns when
\* it runs alone over that collection.
C25_QueriesReadOnly ==
    [][ /\ collection' = collection
        /\ count(collection') = count(collection)
        /\ processed_file' = processed_file
        /\ \A p \in Callers :
             result'[p].pc = "done" => result'[p].ret = AloneAnswer(result'[p], collection')
      ]_vars

\* two calls of query with different questions, both returned with an
\* answer, the second to start having overtaken the first
C25_Witness ==
    /\ \A p \in Callers : result[p].op = "query" /\ result[p].pc = "done"
    /\ result[1].question # result[2].question
    /\ \A p \in Callers : HasKey(result[p].ret, "query")
    /\ result[1].ret.sources # result[2].ret.sources

\* sentences joined by single spaces, as the loop grows a chunk
RECURSIVE JoinSp(_)
JoinSp(ss) == IF ss = << >> THEN << >>
              ELSE IF Len(ss) = 1 THEN ss[1]
              ELSE ss[1] \o << " " >> \o JoinSp(Tail(ss))

\* the chunk texts cs are the sentences ss packed in order: each chunk is
\* a run of consecutive sentences that was grown while it stayed within
\* chunk_size and closed when the next sentence would have taken it above
RECURSIVE GreedyPacked(_, _)
GreedyPacked(ss, cs) ==
    IF cs = << >> THEN ss = << >>
    ELSE \E n \in 1..Len(ss) :
            /\ cs[1] = JoinSp(SubSeq(ss, 1, n))
            /\ \A m \in 2..n : count_tokens(JoinSp(SubSeq(ss, 1, m))) <= chunk_size
            /\ n < Len(ss) => count_tokens(JoinSp(SubSeq(ss, 1, n + 1))) > chunk_size
            /\ GreedyPacked(SubSeq(ss, n + 1, Len(ss)), Tail(cs))

ContentsOf(cs) == [ k \in 1..Len(cs) |-> cs[k].content ]

\* C26: for a unit that create_chunks splits by sentences, the non-empty
\* sentences of its body are assigned to its chunks in their order, each
\* to exactly one chunk, and a chunk is closed exactly when appending the
\* next sentence would take its token count above chunk_size.
C26_GreedyPacking ==
    chunk_call = "create_chunks" =>
        \A u \in 1..Len(sections) :
            ( OnlyOne(u) /\ count_tokens(sections[u].content) > chunk_size )
                => GreedyPacked(Sentences(sections[u].content),
                                ContentsOf(ChunksOf(sections[u])))

\* a unit of three sentences packed into two chunks, two sentences in the
\* first
C26_Witness ==
    /\ chunk_call = "create_chunks"
    /\ \E u \in 1..Len(sections) :
          /\ OnlyOne(u)
          /\ count_tokens(sections[u].content) > chunk_size
          /\ Len(Sentences(sections[u].content)) = 3
          /\ Len(ChunksOf(sections[u])) = 2
          /\ ChunksOf(sections[u])[1].content
                = JoinSp(SubSeq(Sentences(sections[u].content), 1, 2))

\* the title t ends with ' (Part k)'
EndsWithPart(t, k) ==
    LET suffix == PartWord \o str(k) \o << ")" >>
    IN  Len(t) >= Len(suffix) /\ SubSeq(t, Len(t) - Len(suffix) + 1, Len(t)) = suffix

\* C27: the title of a chunk ends with '(Part k)', k = chunk_index + 1,
\* exactly when its unit spans more than one chunk; a chunk with
\* total_chunks = 1 carries the title of its unit unchanged.
C27_PartSuffix ==
    chunk_call = "create_chunks" =>
        \A p \in 1..Len(all_chunks) :
            LET c == all_chunks[p]
            IN  /\ c.total_chunks > 1 <=> EndsWithPart(c.title, c.chunk_index + 1)
                /\ c.total_chunks = 1
                      => \E u \in 1..Len(sections) :
                            SameUnit(sections[u], c) /\ c.title = sections[u].title

\* a setup_database(force_rebuild=True) call that returned True has just ended
RebuildSucceeded == SetupSucceeded(result) /\ result.force_rebuild

\* C28: after setup_database(force_rebuild=True) has returned True, the ids
\* stored in the collection are the ids of the chunks of the documents now in
\* the pdf directory, and every stored document is the content of the chunk
\* of its id.
C28_NoStaleEntries ==
    RebuildSucceeded =>
        LET current == add_metadata(create_chunks(process_all_pdfs(pdf_directory)))
        IN  /\ StoredIds(collection) = { current[k].id : k \in 1..Len(current) }
            /\ \A i \in 1..Len(collection) :
                  \E k \in 1..Len(current) :
                      /\ current[k].id = collection[i].id
                      /\ current[k].content = collection[i].document

\* the split_text_by_tokens call has returned
SplitReturned == result.pc = "return"

\* C29: for every text and every 0 <= chunk_overlap < chunk_size,
\* split_text_by_tokens returns after finitely many iterations of its loop.
C29_TokenWindowsTerminate == <>SplitReturned

\* C30: create_chunks gives at least one chunk for every unit it is handed,
\* units above chunk_size with no text between sentence terminators
\* included; so it returns at least as many chunks as it was given units.
C30_NoUnitLost ==
    chunk_call = "create_chunks" =>
        /\ \A u \in 1..Len(sections) : Len(ChunksOf(sections[u])) >= 1
        /\ Len(all_chunks) >= Len(sections)

=============================================================================
